---- MODULE Spec2Model ----
(***************************************************************************)
(* mudtcp: a non-blocking TCP server (Server<C: Codec>, src/src/lib.rs)    *)
(* with its reference codec (LineCodec, src/src/codec/linecodec.rs).       *)
(*                                                                         *)
(* Strings are sequences of chars, a char is its code point.  A socket is  *)
(* the chars the peer has sent that the codec has not consumed yet (inb)   *)
(* and the peer's state: "up", "eof" (peer closed its side) or "reset".    *)
(***************************************************************************)
EXTENDS Integers, Sequences, FiniteSets, TLC

VARIABLES
    codecs,         \* Server.codecs: Vec<C>, each [id, open]
    events,         \* Server.events: Vec<Event>
    message_queue,  \* Server.message_queue: Vec<(ClientId, String)>
    last_id,        \* Server.last_id
    sock,           \* the accepted sockets, by id
    pending,        \* the listener's backlog: connections not accepted yet
    aborted,        \* the process has panicked
    ret,            \* the call (poll or kick) that ran in the last step, if one did:
                    \* what it returned (res, batch) and, of a poll, the fate of
                    \* each drained message (sends) and the ids it pruned
    joined,         \* history: the ids carried by the Join events so far
    kicked          \* history: the clients kick() closed while they were open,
                    \* up to the poll that prunes them

vars == <<codecs, events, message_queue, last_id, sock, pending, aborted,
          ret, joined, kicked>>

---------------------------------------------------------------------------
(* ClientId, and the bounds of the model *)

\* ClientId::MAX, the last id next_id() issues, of a ClientId narrowed to 0..2
ClientId_MAX == 2

\* most inputs the server has not taken up yet: queued messages, connections
\* in the backlog and unread lines, together
MaxLoad == 3

---------------------------------------------------------------------------
(* Chars and strings *)

\* the longest input a peer of SpecCodec leaves unread, in chars
MaxLen == 5

LF == 10
ESC == 27
Hi == <<104, 105>>
Yo == <<121, 111>>

\* the lines a peer sends in this model, terminator included
Lines == {Hi \o <<LF>>, Yo \o <<LF>>}
\* the texts the application enqueues
Msgs == {Hi, Yo}
\* the ids the application names
AppIds == 1..ClientId_MAX

\* the chars a peer of SpecCodec types: a letter, a space, a digit (an
\* intermediate byte of an escape sequence), ESC, the control CAN, the line
\* feed and a char of two bytes
Alphabet == {97, 32, 49, ESC, 24, LF, 233}

\* the line of the documentation of LineCodec: "  fo^X^Ao_b^[[1;5Aar  " and LF
Example ==
    <<32, 32, 102, 111, 24, 1, 111, 95, 98, ESC, 91, 49, 59, 53, 65, 97, 114, 32, 32, LF>>

\* char::is_ascii_control
is_ascii_control(c) == c \in 0..31 \/ c = 127

\* char::is_whitespace (White_Space), for the chars of the model
is_whitespace(c) == c \in {9, 10, 11, 12, 13, 32, 133, 160}

\* char::len_utf8
len_utf8(c) == IF c < 128 THEN 1 ELSE IF c < 2048 THEN 2 ELSE IF c < 65536 THEN 3 ELSE 4

RECURSIVE byte_len(_)
byte_len(s) == IF s = <<>> THEN 0 ELSE len_utf8(Head(s)) + byte_len(Tail(s))

RECURSIVE trim_start(_)
trim_start(s) ==
    IF s # <<>> /\ is_whitespace(Head(s)) THEN trim_start(Tail(s)) ELSE s

RECURSIVE trim_end(_)
trim_end(s) ==
    IF s # <<>> /\ is_whitespace(s[Len(s)])
    THEN trim_end(SubSeq(s, 1, Len(s) - 1)) ELSE s

\* str::trim
trim(s) == trim_end(trim_start(s))

---------------------------------------------------------------------------
(* LineCodec *)

\* scan, were index advanced by one at ESC as at every other char
RECURSIVE scan_no_skip(_, _, _, _, _)
scan_no_skip(buf, bytes_read, index, sequence, line) ==
    IF index >= bytes_read THEN [k |-> "Ok", line |-> line]
    ELSE IF index >= Len(buf) THEN [k |-> "panic", line |-> line]
    ELSE LET c == buf[index + 1]
             cb == c % 256
         IN IF ~sequence
            THEN IF is_ascii_control(c)
                 THEN scan_no_skip(buf, bytes_read, index + 1, cb = ESC, line)
                 ELSE scan_no_skip(buf, bytes_read, index + 1, FALSE, Append(line, c))
            ELSE scan_no_skip(buf, bytes_read, index + 1, cb \in 32..63, line)

\* the scan loop of LineCodec::read over the line read_line returned:
\* index counts up to bytes_read, buf.chars().nth(index) is None past the
\* last char and unwrap() panics
RECURSIVE scan(_, _, _, _, _)
scan(buf, bytes_read, index, sequence, line) ==
    IF index >= bytes_read THEN [k |-> "Ok", line |-> line]
    ELSE IF index >= Len(buf) THEN [k |-> "panic", line |-> line]
    ELSE LET c == buf[index + 1]
             cb == c % 256
         IN IF ~sequence
            THEN IF is_ascii_control(c)
                 THEN IF cb = ESC
                      THEN scan(buf, bytes_read, index + 2, TRUE, line)
                      ELSE scan(buf, bytes_read, index + 1, FALSE, line)
                 ELSE scan(buf, bytes_read, index + 1, FALSE, Append(line, c))
            ELSE IF cb \in 32..47 \/ cb \in 48..63
                 THEN scan(buf, bytes_read, index + 1, TRUE, line)
                 ELSE scan(buf, bytes_read, index + 1, FALSE, line)

\* trimmed, were an empty line a message
trimmed_empty_is_message(t) == [k |-> "Ok", data |-> t]

\* the end of LineCodec::read: the trimmed line, WouldBlock when it is empty
trimmed(t) ==
    IF t = <<>> THEN [k |-> "WouldBlock", data |-> <<>>] ELSE [k |-> "Ok", data |-> t]

\* r is what the scan loop left
scanned(r) ==
    IF r.k = "panic" THEN [k |-> "panic", data |-> <<>>] ELSE trimmed(trim(r.line))

\* LineCodec::read once read_line returned Ok(bytes_read) with bytes_read > 0
decode(buf) == scanned(scan(buf, byte_len(buf), 0, FALSE, <<>>))

\* index of the first LF of s, 0 when there is none
RECURSIVE find_lf(_, _)
find_lf(s, i) ==
    IF i > Len(s) THEN 0 ELSE IF s[i] = LF THEN i ELSE find_lf(s, i + 1)

\* BufRead::read_line on socket so, into a fresh String, n being the index of
\* the first LF: the chars up to and with it; with no LF buffered it takes
\* every char and asks the socket for more, which ends the line at end of
\* stream and fails otherwise, the String being dropped with the chars it holds
read_line_at(so, n) ==
    IF n > 0
    THEN [k |-> "Ok", buf |-> SubSeq(so.inb, 1, n),
          inb |-> SubSeq(so.inb, n + 1, Len(so.inb))]
    ELSE IF so.peer = "eof"
    THEN [k |-> "Ok", buf |-> so.inb, inb |-> <<>>]
    ELSE IF so.peer = "reset"
    THEN [k |-> "ConnectionReset", buf |-> <<>>, inb |-> <<>>]
    ELSE [k |-> "WouldBlock", buf |-> <<>>, inb |-> <<>>]

read_line(so) == read_line_at(so, find_lf(so.inb, 1))

\* the match of LineCodec::read on r, what read_line returned
read_match(r) ==
    IF r.k = "Ok" /\ Len(r.buf) > 0 THEN decode(r.buf) @@ [inb |-> r.inb]
    ELSE IF r.k = "Ok" THEN [k |-> "UnexpectedEof", data |-> <<>>, inb |-> r.inb]
    ELSE [k |-> r.k, data |-> <<>>, inb |-> r.inb]

\* LineCodec::read: [k: the result's kind, data: the message, inb: what is left unread]
LineCodec_read(c, so) ==
    IF ~c.open THEN [k |-> "NotConnected", data |-> <<>>, inb |-> so.inb]
    ELSE read_match(read_line(so))

\* LineCodec::write: the kind of its result; full: the socket's send buffer
\* takes no more, so write_all fails with WouldBlock
LineCodec_write(c, so, full) ==
    IF ~c.open THEN "NotConnected"
    ELSE IF so.peer = "reset" THEN "BrokenPipe"
    ELSE IF full THEN "WouldBlock"
    ELSE "Ok"

\* shutdown, were it to flip the flag
shutdown_toggles(c) == [c EXCEPT !.open = ~@]

\* LineCodec::write, the chars it hands to the socket: the message and one LF
encode(msg) == msg \o <<LF>>

\* LineCodec::shutdown
shutdown(c) == [c EXCEPT !.open = FALSE]

\* LineCodec::new: open, bound to id
LineCodec_new(id) == [id |-> id, open |-> TRUE]

---------------------------------------------------------------------------
(* Server.  The functions that poll() calls work on st, the server's fields  *)
(* with the sockets: [codecs, events, message_queue, last_id, sock, pending, *)
(* panic, sends].                                                            *)

\* an Event; src is the function of Server that pushed it
Ev(type, id, msg, err, src) ==
    [type |-> type, id |-> id, msg |-> msg, err |-> err, src |-> src]

\* a socket no open codec owns
NoSock == [inb |-> <<>>, peer |-> "none"]

\* codecs.iter_mut().find(|c| c.id() == id): the index of the first match, 0 for None
RECURSIVE find(_, _, _)
find(cs, id, i) ==
    IF i > Len(cs) THEN 0 ELSE IF cs[i].id = id THEN i ELSE find(cs, id, i + 1)

\* Server::ids
ids == [i \in 1..Len(codecs) |-> <<codecs[i].id, codecs[i].open>>]

\* Server::ids_connected, of codecs cs
connected(cs) == [i \in 1..Len(cs) |-> cs[i].id]
ids_connected == connected(SelectSeq(codecs, LAMBDA c: c.open))

\* Server::ids_disconnected
ids_disconnected == connected(SelectSeq(codecs, LAMBDA c: ~c.open))

\* the retain, were it to keep every codec
prune_nothing(cs) == cs

\* the retain of Server::poll
prune(cs) == SelectSeq(cs, LAMBDA c: c.open)

\* the fate of the k-th drained message, for the history
Fate(k, m, res) == [k |-> k, id |-> m[1], msg |-> m[2], res |-> res]

\* Server::send_messages, the branches on the result r of codec.write for the
\* i-th codec and the k-th drained message m
send_written(st, k, m, i, r) ==
    IF r # "Ok"
    THEN [st EXCEPT !.codecs[i] = shutdown(@),
                    !.events = Append(@, Ev("ClientError", m[1], <<>>, r, "send")),
                    !.sends = Append(@, Fate(k, m, r))]
    ELSE [st EXCEPT !.events = Append(@, Ev("Send", m[1], <<>>, "", "send")),
                    !.sends = Append(@, Fate(k, m, r))]

\* send_found, were a message for no client reported as an error
send_found_reports_missing(st, k, m, i, full) ==
    IF i = 0
    THEN [st EXCEPT !.events = Append(@, Ev("ClientError", m[1], <<>>, "NotConnected", "send")),
                    !.sends = Append(@, Fate(k, m, "NoMatch"))]
    ELSE IF ~st.codecs[i].open THEN [st EXCEPT !.sends = Append(@, Fate(k, m, "Closed"))]
    ELSE send_written(st, k, m, i, LineCodec_write(st.codecs[i], st.sock[m[1]], full))

\* Server::send_messages, the body of the loop once find returned i; full:
\* the socket's send buffer takes no more
send_found(st, k, m, i, full) ==
    IF i = 0 THEN [st EXCEPT !.sends = Append(@, Fate(k, m, "NoMatch"))]
    ELSE IF ~st.codecs[i].open THEN [st EXCEPT !.sends = Append(@, Fate(k, m, "Closed"))]
    ELSE send_written(st, k, m, i, LineCodec_write(st.codecs[i], st.sock[m[1]], full))

\* one turn of the loop of Server::send_messages, for the k-th drained message m
send_one(st, k, m, full) == send_found(st, k, m, find(st.codecs, m[1], 1), full)

\* the loop of Server::send_messages over the drained queue q, from its k-th
\* message on; blocks holds the k whose write finds the send buffer full
RECURSIVE send_from(_, _, _, _)
send_from(st, q, k, blocks) ==
    IF k > Len(q) THEN st
    ELSE send_from(send_one(st, k, q[k], k \in blocks), q, k + 1, blocks)

\* the queue, were it read without draining it
drain_nothing(q) == q

\* what message_queue.drain(..) leaves in the queue
drain(q) == <<>>

\* Server::send_messages
send_messages(st, blocks) ==
    send_from([st EXCEPT !.message_queue = drain(@)], st.message_queue, 1, blocks)

\* read_match_ev, were the codec left open at end of stream
read_match_ev_no_shutdown(st, i, id, r) ==
    IF r.k = "panic" THEN [st EXCEPT !.sock[id].inb = r.inb, !.panic = TRUE]
    ELSE IF r.k = "WouldBlock" THEN [st EXCEPT !.sock[id].inb = r.inb]
    ELSE IF r.k = "UnexpectedEof"
    THEN [st EXCEPT !.sock[id].inb = r.inb,
                    !.events = Append(@, Ev("Leave", id, <<>>, "", "read"))]
    ELSE IF r.k = "Ok"
    THEN [st EXCEPT !.sock[id].inb = r.inb,
                    !.events = Append(@, Ev("Receive", id, r.data, "", "read"))]
    ELSE [st EXCEPT !.sock[id].inb = r.inb, !.codecs[i] = shutdown(@),
                    !.events = Append(@, Ev("ClientError", id, <<>>, r.k, "read"))]

\* Server::poll_clients, the match on r, what codec.read() returned for the
\* i-th codec, whose id is id
read_match_ev(st, i, id, r) ==
    IF r.k = "panic" THEN [st EXCEPT !.sock[id].inb = r.inb, !.panic = TRUE]
    ELSE IF r.k = "WouldBlock" THEN [st EXCEPT !.sock[id].inb = r.inb]
    ELSE IF r.k = "UnexpectedEof"
    THEN [st EXCEPT !.sock[id].inb = r.inb, !.codecs[i] = shutdown(@),
                    !.events = Append(@, Ev("Leave", id, <<>>, "", "read"))]
    ELSE IF r.k = "Ok"
    THEN [st EXCEPT !.sock[id].inb = r.inb,
                    !.events = Append(@, Ev("Receive", id, r.data, "", "read"))]
    ELSE [st EXCEPT !.sock[id].inb = r.inb, !.codecs[i] = shutdown(@),
                    !.events = Append(@, Ev("ClientError", id, <<>>, r.k, "read"))]

\* one turn of the loop of Server::poll_clients, for the i-th codec c
read_one(st, i, c) == read_match_ev(st, i, c.id, LineCodec_read(c, st.sock[c.id]))

\* the loop of Server::poll_clients, from the i-th codec on
RECURSIVE read_from(_, _)
read_from(st, i) ==
    IF st.panic \/ i > Len(st.codecs) THEN st
    ELSE read_from(read_one(st, i, st.codecs[i]), i + 1)

\* poll_clients, were every codec read twice in a call
poll_clients_twice(st) == read_from(read_from(st, 1), 1)

\* Server::poll_clients
poll_clients(st) == read_from(st, 1)

\* next_id, were the counter to wrap around instead of panicking
next_id_wrap(lid) == [panic |-> FALSE, id |-> (lid + 1) % (ClientId_MAX + 1)]

\* Server::next_id: panics at ClientId::MAX, else increments (in the width of ClientId)
next_id(lid) ==
    IF lid = ClientId_MAX THEN [panic |-> TRUE, id |-> lid]
    ELSE [panic |-> FALSE, id |-> (lid + 1) % (ClientId_MAX + 1)]

\* Server::try_accept once next_id returned n
try_accept_id(conn, lid, n) ==
    IF n.panic THEN [k |-> "panic", last_id |-> lid]
    ELSE IF conn.kind = "newfail" THEN [k |-> "Err", last_id |-> n.id]
    ELSE [k |-> "Ok", last_id |-> n.id]

\* Server::try_accept on connection conn: set_nonblocking fails ("cfgfail")
\* before an id is taken, C::new fails ("newfail") after
try_accept(conn, lid) ==
    IF conn.kind = "cfgfail" THEN [k |-> "Err", last_id |-> lid]
    ELSE try_accept_id(conn, lid, next_id(lid))

\* accept_match, were the loop to break at a failed accept
accept_match_stops_on_error(st, conn, a) ==
    IF a.k = "panic" THEN [st EXCEPT !.panic = TRUE]
    ELSE IF a.k = "Err"
    THEN [st EXCEPT !.last_id = a.last_id, !.stop = TRUE,
                    !.events = Append(@, Ev("ServerError", 0, <<>>, "Accept", "accept"))]
    ELSE [st EXCEPT !.last_id = a.last_id,
                    !.events = Append(@, Ev("Join", a.last_id, <<>>, "", "accept")),
                    !.codecs = Append(@, LineCodec_new(a.last_id)),
                    !.sock[a.last_id] = [inb |-> conn.data, peer |-> "up"]]

\* Server::poll_listener, the match on a, what try_accept returned for conn:
\* the server's fields after it, the next turn of the loop not included
accept_match(st, conn, a) ==
    IF a.k = "panic" THEN [st EXCEPT !.panic = TRUE]
    ELSE IF a.k = "Err"
    THEN [st EXCEPT !.last_id = a.last_id,
                    !.events = Append(@, Ev("ServerError", 0, <<>>, "Accept", "accept"))]
    ELSE [st EXCEPT !.last_id = a.last_id,
                    !.events = Append(@, Ev("Join", a.last_id, <<>>, "", "accept")),
                    !.codecs = Append(@, LineCodec_new(a.last_id)),
                    !.sock[a.last_id] = [inb |-> conn.data, peer |-> "up"]]

\* one turn of the loop of Server::poll_listener, for connection conn; stop:
\* the loop breaks
accept_one(st, conn) ==
    IF conn.kind = "lerr"
    THEN [st EXCEPT !.events = Append(@, Ev("ServerError", 0, <<>>, "Listener", "accept")),
                    !.stop = TRUE]
    ELSE accept_match(st, conn, try_accept(conn, st.last_id))

\* the loop of Server::poll_listener over the backlog
RECURSIVE accept_from(_)
accept_from(st) ==
    IF st.pending = <<>> \/ st.stop \/ st.panic THEN st
    ELSE accept_from(accept_one([st EXCEPT !.pending = Tail(@)], Head(st.pending)))

\* Server::poll_listener
poll_listener(st) == IF st.panic THEN st ELSE accept_from(st)

\* the sockets of sk that an open codec of cs owns; the others are not followed
owned(cs, sk) ==
    [i \in DOMAIN sk |->
        IF \E j \in 1..Len(cs) : cs[j].id = i /\ cs[j].open THEN sk[i] ELSE NoSock]

\* poll_calls, were the listener polled before the clients
poll_calls_accept_first(st, blocks) ==
    poll_clients(poll_listener(send_messages(st, blocks)))

\* poll_calls, were the listener polled before the queue is sent
poll_calls_listener_first(st, blocks) ==
    poll_clients(send_messages(poll_listener(st), blocks))

\* the calls of Server::poll after the retain, in their order
poll_calls(st, blocks) == poll_listener(poll_clients(send_messages(st, blocks)))

\* Server::poll up to its return: the retain, then send_messages, poll_clients
\* and poll_listener
poll_body(cs, evs, q, sk, lid, pd, blocks) ==
    poll_calls([codecs |-> prune(cs), events |-> evs, message_queue |-> q,
                sock |-> sk, last_id |-> lid, pending |-> pd,
                panic |-> FALSE, stop |-> FALSE, sends |-> <<>>], blocks)

\* the lines of a string
nlines(s) == Cardinality({i \in 1..Len(s) : s[i] = LF})

RECURSIVE unread(_, _)
unread(sk, i) == IF i > ClientId_MAX THEN 0 ELSE nlines(sk[i].inb) + unread(sk, i + 1)

\* the inputs the server has not taken up yet
Load == Len(message_queue) + Len(pending) + unread(sock, 1)

\* the ids of the codecs cs
IdsOf(cs) == {cs[i].id : i \in 1..Len(cs)}

\* the ids of the open codecs of cs
OpenIds(cs) == {cs[i].id : i \in {j \in 1..Len(cs) : cs[j].open}}

\* the ids of the events of b that have one of the types
IdsIn(b, types) == {b[i].id : i \in {j \in 1..Len(b) : b[j].type \in types}}

\* no call that returns something ran in the last step
NoCall == [op |-> "none", res |-> "Ok", batch |-> <<>>, sends |-> <<>>, pruned |-> {}]

\* the kicked clients that are still in the collection
LiveKicked == {k \in kicked : k.id \in IdsOf(codecs)}

\* PollReturns, were the events returned without being drained
PollReturns_keeps_events(p) ==
    /\ codecs' = p.codecs
    /\ message_queue' = p.message_queue
    /\ sock' = owned(p.codecs, p.sock)
    /\ last_id' = p.last_id
    /\ pending' = p.pending
    /\ aborted' = p.panic
    /\ events' = p.events
    /\ ret' = [op |-> "poll",
               res |-> IF p.panic THEN "panic" ELSE "Ok",
               batch |-> IF p.panic THEN <<>> ELSE p.events,
               sends |-> p.sends,
               pruned |-> IdsOf(codecs) \ OpenIds(codecs)]
    /\ joined' = IF p.panic THEN joined ELSE joined \cup IdsIn(p.events, {"Join"})
    /\ kicked' = LiveKicked

\* Server::poll, p being the server's fields when it returns or panics: the
\* events are drained into the batch it returns
PollReturns(p) ==
    /\ codecs' = p.codecs
    /\ message_queue' = p.message_queue
    /\ sock' = owned(p.codecs, p.sock)
    /\ last_id' = p.last_id
    /\ pending' = p.pending
    /\ aborted' = p.panic
    /\ events' = IF p.panic THEN p.events ELSE <<>>
    /\ ret' = [op |-> "poll",
               res |-> IF p.panic THEN "panic" ELSE "Ok",
               batch |-> IF p.panic THEN <<>> ELSE p.events,
               sends |-> p.sends,
               pruned |-> IdsOf(codecs) \ OpenIds(codecs)]
    /\ joined' = IF p.panic THEN joined ELSE joined \cup IdsIn(p.events, {"Join"})
    /\ kicked' = LiveKicked

\* Server::poll
Poll ==
    /\ ~aborted
    /\ \E blocks \in SUBSET (1..Len(message_queue)) :
         PollReturns(poll_body(codecs, events, message_queue, sock, last_id,
                               pending, blocks))

\* Server::enqueue
Enqueue(id, msg) ==
    /\ ~aborted
    /\ Load < MaxLoad
    /\ message_queue' = Append(message_queue, <<id, msg>>)
    /\ ret' = NoCall
    /\ kicked' = LiveKicked
    /\ UNCHANGED <<codecs, events, last_id, sock, pending, aborted, joined>>

\* Server::enqueue_many
EnqueueMany(msgs) ==
    /\ ~aborted
    /\ Load + Len(msgs) <= MaxLoad
    /\ message_queue' = message_queue \o msgs
    /\ ret' = NoCall
    /\ kicked' = LiveKicked
    /\ UNCHANGED <<codecs, events, last_id, sock, pending, aborted, joined>>

\* kick_found, were the codec not shut down
kick_found_no_shutdown(cs, id, i) ==
    IF i # 0 THEN [codecs |-> cs, res |-> "Ok"]
    ELSE [codecs |-> cs, res |-> "IdNotFound"]

\* kick_found, were an id that is not found no error
kick_found_always_ok(cs, id, i) ==
    IF i # 0 THEN [codecs |-> [cs EXCEPT ![i] = shutdown(@)], res |-> "Ok"]
    ELSE [codecs |-> cs, res |-> "Ok"]

\* Server::kick once find returned i: the codecs after it and what it returns
kick_found(cs, id, i) ==
    IF i # 0 THEN [codecs |-> [cs EXCEPT ![i] = shutdown(@)], res |-> "Ok"]
    ELSE [codecs |-> cs, res |-> "IdNotFound"]

kick(cs, id) == kick_found(cs, id, find(cs, id, 1))

\* Server::kick, r being what it does and returns
KickReturns(id, r) ==
    /\ codecs' = r.codecs
    /\ sock' = owned(r.codecs, sock)
    /\ ret' = [NoCall EXCEPT !.op = "kick", !.res = r.res]
    /\ kicked' = IF id \in OpenIds(codecs)
                 THEN LiveKicked \cup {[id |-> id, unread |-> sock[id].inb # <<>>]}
                 ELSE LiveKicked

\* Server::kick
Kick(id) ==
    /\ ~aborted
    /\ KickReturns(id, kick(codecs, id))
    /\ UNCHANGED <<events, message_queue, last_id, pending, aborted, joined>>

---------------------------------------------------------------------------
(* The peers.  A closed codec never touches its socket again, so what the   *)
(* peer of a closed codec does is not followed.                            *)

\* a peer connects; data is what it sends before the server accepts it
Connect(kind, data) ==
    /\ ~aborted
    /\ Load < MaxLoad
    /\ pending' = Append(pending, [kind |-> kind, data |-> data])
    /\ ret' = NoCall
    /\ kicked' = LiveKicked
    /\ UNCHANGED <<codecs, events, message_queue, last_id, sock, aborted, joined>>

\* the peer of socket id sends chars
PeerSend(id, chars) ==
    /\ ~aborted
    /\ sock[id].peer = "up"
    /\ Load < MaxLoad
    /\ sock' = [sock EXCEPT ![id].inb = @ \o chars]
    /\ ret' = NoCall
    /\ kicked' = LiveKicked
    /\ UNCHANGED <<codecs, events, message_queue, last_id, pending, aborted, joined>>

\* the peer of socket id closes its side
PeerClose(id) ==
    /\ ~aborted
    /\ sock[id].peer = "up"
    /\ sock' = [sock EXCEPT ![id].peer = "eof"]
    /\ ret' = NoCall
    /\ kicked' = LiveKicked
    /\ UNCHANGED <<codecs, events, message_queue, last_id, pending, aborted, joined>>

\* the connection of socket id is reset: writes fail, and so do reads once the
\* chars received before are read; keep: these chars are still there
PeerReset(id, keep) ==
    /\ ~aborted
    /\ sock[id].peer \in {"up", "eof"}
    /\ sock' = [sock EXCEPT ![id] = [inb |-> IF keep THEN @.inb ELSE <<>>,
                                     peer |-> "reset"]]
    /\ ret' = NoCall
    /\ kicked' = LiveKicked
    /\ UNCHANGED <<codecs, events, message_queue, last_id, pending, aborted, joined>>

\* the peer of socket id sends one char, c
PeerType(id, c) ==
    /\ ~aborted
    /\ sock[id].peer = "up"
    /\ Len(sock[id].inb) < MaxLen
    /\ sock' = [sock EXCEPT ![id].inb = Append(@, c)]
    /\ ret' = NoCall
    /\ kicked' = LiveKicked
    /\ UNCHANGED <<codecs, events, message_queue, last_id, pending, aborted, joined>>

---------------------------------------------------------------------------
(* The specification *)

\* Server::new
Init ==
    /\ codecs = <<>>
    /\ events = <<>>
    /\ message_queue = <<>>
    /\ last_id = 0
    /\ sock = [i \in 0..ClientId_MAX |-> NoSock]
    /\ pending = <<>>
    /\ aborted = FALSE
    /\ ret = NoCall
    /\ joined = {}
    /\ kicked = {}

ConnKinds == {"ok", "cfgfail", "newfail", "lerr"}

Next ==
    \/ Poll
    \/ \E id \in AppIds, msg \in Msgs : Enqueue(id, msg)
    \/ \E id1 \in AppIds, id2 \in AppIds :
          EnqueueMany(<<<<id1, Hi>>, <<id2, Yo>>>>)
    \/ \E id \in AppIds : Kick(id)
    \/ \E kind \in ConnKinds : Connect(kind, <<>>)
    \/ Connect("ok", Hi \o <<LF>>)
    \/ \E id \in 1..ClientId_MAX, line \in Lines : PeerSend(id, line)
    \/ \E id \in 1..ClientId_MAX : PeerClose(id)
    \/ \E id \in 1..ClientId_MAX, keep \in BOOLEAN : PeerReset(id, keep)

Spec == Init /\ [][Next]_vars

\* a server one client has joined, whose peer has sent nothing yet or the
\* line of the documentation
InitCodec ==
    /\ codecs = <<LineCodec_new(1)>>
    /\ events = <<>>
    /\ message_queue = <<>>
    /\ last_id = 1
    /\ \E data \in {<<>>, Example} :
          sock = [i \in 0..ClientId_MAX |->
                    IF i = 1 THEN [inb |-> data, peer |-> "up"] ELSE NoSock]
    /\ pending = <<>>
    /\ aborted = FALSE
    /\ ret = NoCall
    /\ joined = {1}
    /\ kicked = {}

\* the peer types char after char, or closes, and the server polls when it likes
NextCodec ==
    \/ Poll
    \/ \E c \in Alphabet : PeerType(1, c)
    \/ PeerClose(1)

\* the server and one client, to follow what LineCodec reads
SpecCodec == InitCodec /\ [][NextCodec]_vars

---------------------------------------------------------------------------
(* What the claims speak of *)

\* the step is a call of poll() that returned
PollStep == ret'.op = "poll" /\ ret'.res = "Ok"

\* the step is a call of poll(), returned or panicked
PollCall == ret'.op = "poll"

\* some event of batch b names client id
Names(b, id) == \E i \in 1..Len(b) : b[i].id = id

\* the events of b of the given types, in their order
Sel(b, types) == SelectSeq(b, LAMBDA e : e.type \in types)

\* the ids of a sequence of events or fates, in their order
IdSeq(b) == [i \in 1..Len(b) |-> b[i].id]

Terminal == {"Leave", "ClientError"}

\* the place of a phase in poll()
Rank(src) == IF src = "send" THEN 1 ELSE IF src = "read" THEN 2 ELSE 3

\* the types each phase emits
TypesOf(src) ==
    IF src = "send" THEN {"Send", "ClientError"}
    ELSE IF src = "read" THEN {"Receive", "Leave", "ClientError"}
    ELSE {"Join", "ServerError"}

---------------------------------------------------------------------------
\* C1: in the batch poll() returns the events are grouped by phase, in the
\* order send, read, accept: Send and write-caused ClientError first, then
\* Receive, Leave and read-caused ClientError, then Join and ServerError; the
\* pruning comes before the three phases (a message for a pruned client finds
\* no codec) and emits no event (none names a pruned client).
C1_PhaseOrder ==
    ret.op = "poll" =>
        /\ \A i, j \in 1..Len(ret.batch) :
              i < j => Rank(ret.batch[i].src) <= Rank(ret.batch[j].src)
        /\ \A i \in 1..Len(ret.batch) : ret.batch[i].type \in TypesOf(ret.batch[i].src)
        /\ \A id \in ret.pruned : ~Names(ret.batch, id)
        /\ \A k \in 1..Len(ret.sends) :
              ret.sends[k].id \in ret.pruned => ret.sends[k].res = "NoMatch"

\* a batch with events of the three phases
C1_Witness ==
    /\ ret.op = "poll"
    /\ {ret.batch[i].src : i \in 1..Len(ret.batch)} = {"send", "read", "accept"}

---------------------------------------------------------------------------
\* C2: a client whose codec is closed (by a Leave, a ClientError or kick) is
\* removed by the next poll() before the queue is processed: every message
\* queued for it is dropped without a write, and neither that poll's batch
\* nor a later one names it.  Stated for every poll() and every id the
\* counter has issued that has no open codec when the poll begins.
C2_ClosedClientIsGone ==
    [][PollCall =>
        \A id \in (1..last_id) \ OpenIds(codecs) :
            /\ id \notin IdsOf(codecs')
            /\ ~Names(ret'.batch, id)
            /\ \A k \in 1..Len(ret'.sends) :
                  ret'.sends[k].id = id => ret'.sends[k].res = "NoMatch"]_vars

\* a poll() pruned a client that had a message queued for it
C2_Witness ==
    /\ ret.op = "poll" /\ ret.res = "Ok"
    /\ \E k \in 1..Len(ret.sends) : ret.sends[k].id \in ret.pruned

---------------------------------------------------------------------------
\* C3: every poll() drains the whole queue: it is empty afterwards whatever
\* the writes did, each queued message is processed exactly once and in the
\* order of the queue, and the Send events of the batch are those of the
\* successful writes, in that order.
C3_QueueDrainedInOrder ==
    [][PollCall =>
        /\ message_queue' = <<>>
        /\ Len(ret'.sends) = Len(message_queue)
        /\ \A k \in 1..Len(message_queue) :
              /\ ret'.sends[k].k = k
              /\ <<ret'.sends[k].id, ret'.sends[k].msg>> = message_queue[k]
        /\ ret'.res = "Ok" =>
              IdSeq(Sel(ret'.batch, {"Send"}))
                = IdSeq(SelectSeq(ret'.sends, LAMBDA f : f.res = "Ok"))]_vars

\* a poll() drained a queue of several messages, one written, one not
C3_Witness ==
    /\ ret.op = "poll" /\ ret.res = "Ok"
    /\ Len(ret.sends) >= 2
    /\ \E j, k \in 1..Len(ret.sends) :
          j < k /\ ret.sends[j].res # "Ok" /\ ret.sends[k].res = "Ok"
    /\ message_queue = <<>>

---------------------------------------------------------------------------
\* the scenario of C4: no client yet, two connections wait in the backlog and
\* the first has sent the line "hi"
C4_Scenario ==
    /\ codecs = <<>> /\ last_id = 0
    /\ pending = <<[kind |-> "ok", data |-> Hi \o <<LF>>], [kind |-> "ok", data |-> <<>>]>>

\* the state the poll() that accepts the two leaves
C4_Accepted ==
    /\ ret.op = "poll" /\ ret.res = "Ok"
    /\ IdSeq(ret.batch) = <<1, 2>>
    /\ \A i \in 1..Len(ret.batch) : ret.batch[i].type = "Join"
    /\ OpenIds(codecs) = {1, 2}
    /\ sock[1].inb = Hi \o <<LF>>

\* C4 as the spec states it: the poll() that accepts the two clients returns
\* Join(1), Join(2) and Receive(1, "hi"), in that relative order
C4_Original ==
    [][(C4_Scenario /\ PollStep) =>
        \E i, j, k \in 1..Len(ret'.batch) :
            /\ i < j /\ j < k
            /\ ret'.batch[i].type = "Join" /\ ret'.batch[i].id = 1
            /\ ret'.batch[j].type = "Join" /\ ret'.batch[j].id = 2
            /\ ret'.batch[k].type = "Receive" /\ ret'.batch[k].id = 1
            /\ ret'.batch[k].msg = Hi]_vars

\* C4, amended: the poll() that accepts the two clients returns Join(1),
\* Join(2) and no Receive, the line staying unread; the poll() that follows
\* returns Receive(1, "hi").
C4_JoinThenReceiveNextPoll ==
    [][/\ (C4_Scenario /\ PollStep) =>
            /\ IdSeq(Sel(ret'.batch, {"Join"})) = <<1, 2>>
            /\ Sel(ret'.batch, {"Receive"}) = <<>>
            /\ OpenIds(codecs') = {1, 2}
            /\ sock'[1].inb = Hi \o <<LF>>
       /\ (C4_Accepted /\ PollStep) =>
            /\ Len(ret'.batch) >= 1
            /\ ret'.batch[1] = Ev("Receive", 1, Hi, "", "read")
            /\ sock'[1].inb = <<>>]_vars

\* the two clients are accepted and the line of client 1 is still unread
C4_Witness == C4_Accepted

---------------------------------------------------------------------------
\* C5: during a poll() that returns, a codec goes from open to closed exactly
\* when the batch holds Leave(id) or ClientError(id, _): Leave for a zero-byte
\* read, ClientError for another read failure or a write failure; a client
\* with neither stays open.  A client is removed only once closed, and a
\* codec is closed only by such a poll() or by kick.
C5_ClosedIffTerminalEvent ==
    [][/\ PollStep =>
            /\ \A id \in IdsOf(codecs') :
                  id \notin OpenIds(codecs') <=> id \in IdsIn(ret'.batch, Terminal)
            /\ IdsIn(ret'.batch, Terminal) \subseteq OpenIds(codecs)
            /\ \A i \in 1..Len(ret'.batch) :
                  ret'.batch[i].type = "Leave" =>
                      /\ sock[ret'.batch[i].id].inb = <<>>
                      /\ sock[ret'.batch[i].id].peer = "eof"
            /\ \A k \in 1..Len(ret'.sends) :
                  ret'.sends[k].res \notin {"Ok", "NoMatch", "Closed"} =>
                      \E i \in 1..Len(ret'.batch) :
                          ret'.batch[i] = Ev("ClientError", ret'.sends[k].id, <<>>,
                                             ret'.sends[k].res, "send")
       /\ \A id \in OpenIds(codecs) \ OpenIds(codecs') :
            /\ id \in IdsOf(codecs')
            /\ \/ ret'.op = "kick" /\ ret'.res = "Ok"
               \/ ret'.op = "poll" /\ ret'.res = "panic"
               \/ ret'.op = "poll" /\ id \in IdsIn(ret'.batch, Terminal)]_vars

\* a poll() closed one client on a zero-byte read and another on a failed write
C5_Witness ==
    /\ ret.op = "poll" /\ ret.res = "Ok"
    /\ \E i, j \in 1..Len(ret.batch) :
          /\ ret.batch[i].type = "ClientError" /\ ret.batch[i].src = "send"
          /\ ret.batch[j].type = "Leave"
          /\ ret.batch[i].id # ret.batch[j].id
          /\ {ret.batch[i].id, ret.batch[j].id} \subseteq IdsOf(codecs) \ OpenIds(codecs)

---------------------------------------------------------------------------
\* C6: a would-block outcome of a socket operation of poll() is never
\* reported as an event and never closes a client.
C6_WouldBlockIsNoEvent ==
    ret.op = "poll" =>
        /\ \A i \in 1..Len(ret.batch) : ret.batch[i].err # "WouldBlock"
        /\ \A k \in 1..Len(ret.sends) :
              ret.sends[k].res = "WouldBlock" => ret.sends[k].id \in OpenIds(codecs)

---------------------------------------------------------------------------
\* the Join ids of batch b, in their order
JoinIds(b) == IdSeq(Sel(b, {"Join"}))

\* the connections of the backlog a step took up
Taken == SubSeq(pending, 1, Len(pending) - Len(pending'))

\* how many of the first n connections of p took an id from the counter
Allocs(p, n) == Cardinality({i \in 1..n : p[i].kind \in {"ok", "newfail"}})

\* C7 as the spec states it: the Join ids of the successive batches are
\* strictly increasing, none is issued twice, and the first one is 1.
C7_Original ==
    [][PollCall =>
        /\ \A i, j \in 1..Len(JoinIds(ret'.batch)) :
              i < j => JoinIds(ret'.batch)[i] < JoinIds(ret'.batch)[j]
        /\ \A i \in 1..Len(JoinIds(ret'.batch)) :
              \A old \in joined : old < JoinIds(ret'.batch)[i]
        /\ (joined = {} /\ JoinIds(ret'.batch) # <<>>) =>
              JoinIds(ret'.batch)[1] = 1]_vars

\* C7, amended: the Join ids of the successive batches are strictly
\* increasing and at least 1, so none is issued twice; each accepted
\* connection whose socket was configured takes the next value of the
\* counter, also when the construction of its codec then fails, so the first
\* Join carries 1 plus the number of such failures before it; the counter
\* never decreases and never passes ClientId::MAX, an allocation at
\* ClientId::MAX aborting the process, after which nothing is issued.
C7_JoinIdsIncrease ==
    [][/\ last_id' >= last_id /\ last_id' <= ClientId_MAX
       /\ joined' \subseteq 1..last_id'
       /\ aborted => joined' = joined
       /\ PollCall =>
            /\ \A i, j \in 1..Len(JoinIds(ret'.batch)) :
                  i < j => JoinIds(ret'.batch)[i] < JoinIds(ret'.batch)[j]
            /\ \A i \in 1..Len(JoinIds(ret'.batch)) :
                  /\ JoinIds(ret'.batch)[i] > last_id
                  /\ \A old \in joined : old < JoinIds(ret'.batch)[i]
            /\ ret'.res = "Ok" =>
                  /\ last_id' = last_id + Allocs(Taken, Len(Taken))
                  /\ {JoinIds(ret'.batch)[i] : i \in 1..Len(JoinIds(ret'.batch))}
                       = {last_id + Allocs(Taken, n) :
                            n \in {m \in 1..Len(Taken) : Taken[m].kind = "ok"}}
            /\ ret'.res = "panic" =>
                  /\ last_id' = ClientId_MAX
                  /\ last_id' = last_id + Allocs(Taken, Len(Taken) - 1)
                  /\ aborted' /\ joined' = joined
                  /\ Taken[Len(Taken)].kind \in {"ok", "newfail"}]_vars

\* the first Join carried 2, the construction of the first codec having
\* failed, and an allocation at ClientId::MAX aborted the process
C7_Witness ==
    /\ aborted /\ ret.op = "poll" /\ ret.res = "panic"
    /\ last_id = ClientId_MAX
    /\ joined = {2}

---------------------------------------------------------------------------
\* the Receive events of batch b for client id
ReceivesOf(b, id) == SelectSeq(b, LAMBDA e : e.type = "Receive" /\ e.id = id)

\* some write to client id failed in the calls f of codec.write
WriteFailed(f, id) == \E k \in 1..Len(f) : f[k].id = id /\ f[k].res # "Ok"

\* C8 as the spec states it: a batch has at most one Receive per client, and
\* every client that is connected when poll() begins and has sent complete
\* non-blank lines gets exactly one of them, the first, surfaced by it.
C8_Original ==
    [][PollStep =>
        \A id \in AppIds :
            /\ Len(ReceivesOf(ret'.batch, id)) <= 1
            /\ (id \in OpenIds(codecs) /\ nlines(sock[id].inb) >= 1) =>
                  ReceivesOf(ret'.batch, id)
                    = <<Ev("Receive", id, SubSeq(sock[id].inb, 1, 2), "", "read")>>]_vars

\* C8, amended: a batch has at most one Receive per client; a client that is
\* connected when poll() begins, has sent complete non-blank lines and has no
\* failed write in this poll() gets exactly the first of them surfaced, the
\* others staying unread in their order for the polls that follow; a client
\* one of whose writes failed in this poll() is closed before it is read and
\* gets none surfaced; so does a client that is not connected.
C8_OneLinePerPoll ==
    [][PollStep =>
        \A id \in AppIds :
            /\ Len(ReceivesOf(ret'.batch, id)) <= 1
            /\ (id \in OpenIds(codecs) /\ nlines(sock[id].inb) >= 1
                  /\ ~WriteFailed(ret'.sends, id)) =>
                  /\ ReceivesOf(ret'.batch, id)
                       = <<Ev("Receive", id, SubSeq(sock[id].inb, 1, 2), "", "read")>>
                  /\ sock'[id].inb = SubSeq(sock[id].inb, 4, Len(sock[id].inb))
                  /\ id \in OpenIds(codecs')
            /\ (id \in OpenIds(codecs) /\ WriteFailed(ret'.sends, id)) =>
                  /\ ReceivesOf(ret'.batch, id) = <<>>
                  /\ id \notin OpenIds(codecs')
            /\ id \notin OpenIds(codecs) => ReceivesOf(ret'.batch, id) = <<>>]_vars

\* a poll() surfaced "hi", the first of the two lines a client had sent, and
\* left "yo" unread
C8_Witness ==
    /\ ret.op = "poll" /\ ret.res = "Ok"
    /\ \E id \in AppIds :
          /\ ReceivesOf(ret.batch, id) = <<Ev("Receive", id, Hi, "", "read")>>
          /\ sock[id].inb = Yo \o <<LF>>

---------------------------------------------------------------------------
\* C9: kick(id) on a connected client returns Ok and closes it at once:
\* ids_connected() no longer lists it and ids() lists it as closed; the next
\* poll() prunes it: its messages find no codec, no event of the batch names
\* it, and ids() no longer lists it.
C9_KickedIsPrunedSilently ==
    [][/\ \A id \in AppIds :
            (Kick(id) /\ id \in OpenIds(codecs)) =>
                /\ ret'.res = "Ok"
                /\ \A i \in 1..Len(ids_connected') : ids_connected'[i] # id
                /\ \E i \in 1..Len(ids') : ids'[i] = <<id, FALSE>>
                /\ \E k \in kicked' : k.id = id
       /\ PollCall =>
            \A k \in kicked :
                /\ \A i \in 1..Len(ids') : ids'[i][1] # k.id
                /\ ~Names(ret'.batch, k.id)
                /\ \A j \in 1..Len(ret'.sends) :
                      ret'.sends[j].id = k.id => ret'.sends[j].res = "NoMatch"]_vars

\* a poll() pruned a kicked client that had unread data and a queued message
C9_Witness ==
    /\ ret.op = "poll" /\ ret.res = "Ok"
    /\ \E k \in kicked :
          /\ k.unread
          /\ k.id \in ret.pruned
          /\ \E j \in 1..Len(ret.sends) : ret.sends[j].id = k.id

---------------------------------------------------------------------------
\* C10: kick(id) for an id that is not in the collection, never issued or
\* pruned, returns IdNotFound without aborting and changes neither the
\* collection, nor a client's state, nor the queue, nor the counter; kick on a
\* client that is closed and not pruned yet returns Ok and changes nothing.
C10_KickUnknownOrClosed ==
    [][\A id \in AppIds :
          /\ (Kick(id) /\ id \notin IdsOf(codecs)) =>
                /\ ret'.res = "IdNotFound"
                /\ ~aborted'
                /\ UNCHANGED <<codecs, sock, message_queue, last_id, events, pending>>
          /\ (Kick(id) /\ id \in IdsOf(codecs) \ OpenIds(codecs)) =>
                /\ ret'.res = "Ok"
                /\ ~aborted'
                /\ UNCHANGED <<codecs, sock, message_queue, last_id, events, pending>>]_vars

\* kick returned IdNotFound for a client that had joined and was pruned, while
\* another client was connected and a message was queued
C10_Witness ==
    /\ ret.op = "kick" /\ ret.res = "IdNotFound"
    /\ joined = AppIds
    /\ Len(codecs) = 1 /\ OpenIds(codecs) # {}
    /\ message_queue # <<>>

---------------------------------------------------------------------------
\* the fates of f that are a call of codec.write
Written(f) == SelectSeq(f, LAMBDA x : x.res \notin {"NoMatch", "Closed"})

\* the events of batch b that send_messages pushed
SendPhase(b) == SelectSeq(b, LAMBDA e : e.src = "send")

\* C11: a queued message whose id matches no client of the live set, or whose
\* client a failed write closed earlier in the same send phase, is dropped:
\* no write is attempted and no event pushed for it (the events of the send
\* phase are, one for one and in order, those of the writes attempted), no
\* client is closed by it, and the messages behind it are processed.
C11_DroppedMessageIsSilent ==
    [][PollCall =>
        /\ Len(ret'.sends) = Len(message_queue)
        /\ \A k \in 1..Len(ret'.sends) :
              /\ ret'.sends[k].res = "NoMatch" <=> message_queue[k][1] \notin OpenIds(codecs)
              /\ ret'.sends[k].res = "Closed" <=>
                    /\ message_queue[k][1] \in OpenIds(codecs)
                    /\ \E j \in 1..(k - 1) :
                          /\ message_queue[j][1] = message_queue[k][1]
                          /\ ret'.sends[j].res \notin {"Ok", "NoMatch", "Closed"}
        /\ ret'.res = "Ok" =>
              /\ Len(SendPhase(ret'.batch)) = Len(Written(ret'.sends))
              /\ \A n \in 1..Len(Written(ret'.sends)) :
                    SendPhase(ret'.batch)[n]
                      = IF Written(ret'.sends)[n].res = "Ok"
                        THEN Ev("Send", Written(ret'.sends)[n].id, <<>>, "", "send")
                        ELSE Ev("ClientError", Written(ret'.sends)[n].id, <<>>,
                                Written(ret'.sends)[n].res, "send")
              /\ \A id \in OpenIds(codecs) \ OpenIds(codecs') :
                    id \in IdsIn(ret'.batch, Terminal)]_vars

\* a poll() dropped a message for a client its failed write had just closed,
\* and wrote the message behind it
C11_Witness ==
    /\ ret.op = "poll" /\ ret.res = "Ok"
    /\ \E i, j, k \in 1..Len(ret.sends) :
          /\ i < j /\ j < k
          /\ ret.sends[i].res \notin {"Ok", "NoMatch", "Closed"}
          /\ ret.sends[j].res = "Closed" /\ ret.sends[j].id = ret.sends[i].id
          /\ ret.sends[k].res = "Ok"

---------------------------------------------------------------------------
\* the elements of sequence q
Range(q) == {q[i] : i \in 1..Len(q)}

\* C12: the life of a client goes one way.  It enters the collection open,
\* in a poll() that pushes Join(id); once closed it is never open again; it
\* stays listed as closed by ids() and ids_disconnected() until a poll()
\* begins, and only a poll() removes it; after that poll() ids() does not
\* list it.  At every moment ids_connected() and ids_disconnected() are
\* disjoint and list together exactly the ids of ids(), each id once.
C12_LifecycleOneWay ==
    [][/\ Range(ids_connected) \cap Range(ids_disconnected) = {}
       /\ Range(ids_connected) \cup Range(ids_disconnected) = {x[1] : x \in Range(ids)}
       /\ Len(ids_connected) + Len(ids_disconnected) = Len(ids)
       /\ Cardinality({x[1] : x \in Range(ids)}) = Len(ids)
       /\ \A id \in IdsOf(codecs') \ IdsOf(codecs) :
             /\ <<id, TRUE>> \in Range(ids')
             /\ PollCall
             /\ id \in IdsIn(IF ret'.res = "panic" THEN events' ELSE ret'.batch, {"Join"})
             /\ id > last_id
       /\ \A id \in (1..last_id) \ Range(ids_connected) : id \notin Range(ids_connected')
       /\ \A id \in Range(ids_disconnected) :
             IF PollCall THEN id \notin {x[1] : x \in Range(ids')}
             ELSE <<id, FALSE>> \in Range(ids') /\ id \in Range(ids_disconnected')
       /\ IdsOf(codecs) \ IdsOf(codecs') # {} => PollCall]_vars

\* of the two clients that joined one is pruned and the other is listed as
\* closed, between two calls of poll()
C12_Witness ==
    /\ joined = AppIds
    /\ ret.op = "none"
    /\ Len(ids) = 1
    /\ Len(ids_disconnected) = 1

---------------------------------------------------------------------------
\* the events of batch b that poll_listener pushed
AcceptPhase(b) == SelectSeq(b, LAMBDA e : e.src = "accept")

\* the accept of a connection of this kind fails
FailedAccept == {"cfgfail", "newfail"}

\* C13: in a poll() that returns, each connection taken from the backlog
\* yields one event, in the order of the backlog: a failed accept (socket
\* configuration or codec construction) exactly one ServerError and no Join,
\* a good one a Join; the failed ones add no client, the clients there
\* before keep their places and are closed only for a Leave or ClientError
\* of their own, and unless the listener itself fails every connection
\* of the backlog is taken, those behind a failed accept included.
C13_FailedAcceptIsLocal ==
    [][PollStep =>
        /\ Len(AcceptPhase(ret'.batch)) = Len(Taken)
        /\ \A n \in 1..Len(Taken) :
              /\ Taken[n].kind \in FailedAccept =>
                    AcceptPhase(ret'.batch)[n] = Ev("ServerError", 0, <<>>, "Accept", "accept")
              /\ Taken[n].kind = "ok" =>
                    /\ AcceptPhase(ret'.batch)[n].type = "Join"
                    /\ AcceptPhase(ret'.batch)[n].id \in OpenIds(codecs')
        /\ Cardinality(IdsOf(codecs') \ IdsOf(codecs))
             = Cardinality({n \in 1..Len(Taken) : Taken[n].kind = "ok"})
        /\ IdsOf(codecs') \ IdsOf(codecs) = IdsIn(ret'.batch, {"Join"})
        /\ \A id \in OpenIds(codecs) :
              id \in OpenIds(codecs') \/ id \in IdsIn(ret'.batch, Terminal)
        /\ message_queue' = <<>>
        /\ (\A n \in 1..Len(pending) : pending[n].kind # "lerr") => pending' = <<>>]_vars

\* a poll() with a client connected before it failed to accept one connection
\* and accepted the one behind it
C13_Witness ==
    /\ ret.op = "poll" /\ ret.res = "Ok"
    /\ OpenIds(codecs) = {1, 2}
    /\ 1 \notin IdsIn(ret.batch, {"Join"})
    /\ \E i, j \in 1..Len(ret.batch) :
          /\ i < j
          /\ ret.batch[i].type = "ServerError" /\ ret.batch[i].err = "Accept"
          /\ ret.batch[j].type = "Join" /\ ret.batch[j].id = 2

---------------------------------------------------------------------------
\* the events of batch b that poll_clients pushed
ReadPhase(b) == SelectSeq(b, LAMBDA e : e.src = "read")

\* nothing waits for poll(): no connection, no message, and no client has
\* data to read, has closed or was reset
Idle ==
    /\ pending = <<>>
    /\ message_queue = <<>>
    /\ \A id \in OpenIds(codecs) : sock[id].inb = <<>> /\ sock[id].peer = "up"

\* C14: the event buffer is empty whenever poll() is not executing (the
\* process not having aborted), and a batch holds only events of the call
\* that returns it: as many events of the send phase as writes attempted in
\* this call, one event per connection taken from the backlog in this call,
\* and at most one event of the read phase per client, each for a client
\* that had something to read, had closed, was reset or had a write fail in
\* this call.  A poll() with nothing waiting returns an empty batch,
\* whatever earlier polls reported.
C14_BatchIsOfThisCall ==
    [][/\ ~aborted => events = <<>>
       /\ PollStep =>
            /\ events' = <<>>
            /\ Len(ret'.batch) = Len(SendPhase(ret'.batch)) + Len(ReadPhase(ret'.batch))
                                   + Len(AcceptPhase(ret'.batch))
            /\ Len(SendPhase(ret'.batch)) = Len(Written(ret'.sends))
            /\ Len(Written(ret'.sends)) <= Len(message_queue)
            /\ Len(AcceptPhase(ret'.batch)) = Len(Taken)
            /\ \A i, j \in 1..Len(ReadPhase(ret'.batch)) :
                  i # j => ReadPhase(ret'.batch)[i].id # ReadPhase(ret'.batch)[j].id
            /\ \A i \in 1..Len(ReadPhase(ret'.batch)) :
                  /\ ReadPhase(ret'.batch)[i].id \in OpenIds(codecs)
                  /\ \/ sock[ReadPhase(ret'.batch)[i].id].inb # <<>>
                     \/ sock[ReadPhase(ret'.batch)[i].id].peer # "up"
                     \/ WriteFailed(ret'.sends, ReadPhase(ret'.batch)[i].id)
            /\ Idle => ret'.batch = <<>>]_vars

\* a poll() with nothing waiting returned an empty batch, clients being
\* connected that earlier batches had reported
C14_Witness ==
    /\ ret.op = "poll" /\ ret.res = "Ok"
    /\ ret.batch = <<>> /\ ret.sends = <<>> /\ ret.pruned = {}
    /\ OpenIds(codecs) = joined /\ joined = AppIds
    /\ \A id \in AppIds : sock[id].inb = <<>> /\ sock[id].peer = "up"

---------------------------------------------------------------------------
\* C15: no inbound char is lost to a partial read.  When poll() finds that a
\* connected client has sent the beginning of a line and not yet its
\* terminator, it reports nothing for the client and the chars stay unread,
\* so that the message is computed from the whole line once the terminator
\* has arrived.
C15_PartialLineIsKept ==
    [][PollStep =>
        \A id \in OpenIds(codecs) :
            (sock[id].inb # <<>> /\ find_lf(sock[id].inb, 1) = 0 /\ sock[id].peer = "up") =>
                /\ ~Names(ret'.batch, id)
                /\ id \in OpenIds(codecs')
                /\ sock'[id].inb = sock[id].inb]_vars

---------------------------------------------------------------------------
\* the decoding algorithm as a machine over the chars of line s, from the
\* i-th on: in mode "text" controls are dropped, ESC leads to mode afterEsc
\* and other chars are kept; in mode "skip" one char is dropped whatever it
\* is; in mode "seq" the chars of 0x20-0x3F are dropped, and so is the first
\* other char, which leads back to "text"
RECURSIVE Fold(_, _, _, _, _)
Fold(s, i, mode, out, afterEsc) ==
    IF i > Len(s) THEN out
    ELSE IF mode = "skip" THEN Fold(s, i + 1, "seq", out, afterEsc)
    ELSE IF mode = "seq"
    THEN Fold(s, i + 1, IF s[i] \in 32..63 THEN "seq" ELSE "text", out, afterEsc)
    ELSE IF s[i] = ESC THEN Fold(s, i + 1, afterEsc, out, afterEsc)
    ELSE IF s[i] \in 0..31 \/ s[i] = 127 THEN Fold(s, i + 1, "text", out, afterEsc)
    ELSE Fold(s, i + 1, "text", Append(out, s[i]), afterEsc)

\* s without its leading and trailing whitespace
Strip(s) ==
    LET keep == {i \in 1..Len(s) : ~is_whitespace(s[i])}
    IN IF keep = {} THEN <<>>
       ELSE SubSeq(s, CHOOSE i \in keep : \A j \in keep : i <= j,
                      CHOOSE i \in keep : \A j \in keep : i >= j)

\* the algorithm of the spec: the sequence begins right after ESC
SpecDecode(s) == Strip(Fold(s, 1, "text", <<>>, "seq"))

\* the same with the char right after ESC dropped whatever it is
SkipDecode(s) == Strip(Fold(s, 1, "text", <<>>, "skip"))

\* the line read_line hands to the decoding for socket so: up to the first
\* LF, or what is left when the peer has closed; <<>> when there is none
FirstLine(so) ==
    IF find_lf(so.inb, 1) > 0 THEN SubSeq(so.inb, 1, find_lf(so.inb, 1))
    ELSE IF so.peer = "eof" THEN so.inb ELSE <<>>

\* the chars of s take one byte each
IsAscii(s) == \A i \in 1..Len(s) : s[i] < 128

\* "foo_bar"
FooBar == <<102, 111, 111, 95, 98, 97, 114>>

\* poll() reports for client 1 what decoding a line to message m reports:
\* Receive(1, m), or nothing when m is empty, the client staying open
Decoded(m) ==
    /\ ret'.res = "Ok"
    /\ ret'.batch = IF m = <<>> THEN <<>> ELSE <<Ev("Receive", 1, m, "", "read")>>
    /\ 1 \in OpenIds(codecs')

\* C16 as the spec states it: for every raw line of one-byte chars decode
\* returns what the algorithm of the spec returns, ESC starting a sequence
\* that swallows the chars of 0x20-0x3F that follow and ends at the first
\* other char; and the line of the documentation decodes to "foo_bar".
C16_Original ==
    [][(PollCall /\ 1 \in OpenIds(codecs) /\ FirstLine(sock[1]) # <<>>
          /\ IsAscii(FirstLine(sock[1]))) =>
            /\ Decoded(SpecDecode(FirstLine(sock[1])))
            /\ FirstLine(sock[1]) = Example => Decoded(FooBar)]_vars

\* C16, amended: for every raw line of one-byte chars decode returns what
\* this algorithm returns: outside a sequence controls are dropped and other
\* chars kept; ESC starts a sequence and the char right after ESC is dropped
\* whatever it is; the sequence then swallows the chars of 0x20-0x3F and ends
\* at, and drops, the first other char, after which ordinary scanning resumes
\* with the very next char; the result is trimmed, an empty one being
\* WouldBlock.  The line of the documentation decodes to "foo_bar".
C16_DecodeSkipsAfterEsc ==
    [][(PollCall /\ 1 \in OpenIds(codecs) /\ FirstLine(sock[1]) # <<>>
          /\ IsAscii(FirstLine(sock[1]))) =>
            /\ Decoded(SkipDecode(FirstLine(sock[1])))
            /\ FirstLine(sock[1]) = Example => Decoded(FooBar)
            /\ sock'[1].inb
                 = SubSeq(sock[1].inb, Len(FirstLine(sock[1])) + 1, Len(sock[1].inb))]_vars

\* the line of the documentation was decoded to "foo_bar"
C16_Witness ==
    /\ ret.op = "poll" /\ ret.res = "Ok"
    /\ ret.batch = <<Ev("Receive", 1, FooBar, "", "read")>>
    /\ sock[1].inb = <<>>

---------------------------------------------------------------------------
\* m is not empty, holds no control char and begins and ends with a char
\* that is no whitespace
Clean(m) ==
    /\ m # <<>>
    /\ \A i \in 1..Len(m) : ~is_ascii_control(m[i])
    /\ ~is_whitespace(m[1]) /\ ~is_whitespace(m[Len(m)])

\* what socket so holds unread without its last char
Payload(so) == SubSeq(so.inb, 1, Len(so.inb) - 1)

\* C17: for every clean string, chars of several bytes included, what the
\* peer's encode writes for it is decoded to the identical string: the poll()
\* that reads the line returns Receive with that string and does not abort.
C17_RoundTrip ==
    [][(PollCall /\ 1 \in OpenIds(codecs) /\ sock[1].inb # <<>>
          /\ Clean(Payload(sock[1])) /\ sock[1].inb = encode(Payload(sock[1]))) =>
            Decoded(Payload(sock[1]))]_vars

---------------------------------------------------------------------------
\* s holds only whitespace and controls
Blank(s) == \A i \in 1..Len(s) : is_whitespace(s[i]) \/ is_ascii_control(s[i])

\* the first line of what socket so holds unread, when it is complete
Complete(so) == find_lf(so.inb, 1) > 0

\* C18: a complete line of only whitespace and controls is consumed and
\* decodes as WouldBlock: the poll() that reads it returns no event for the
\* client, the client stays open, and what the client sent behind the line
\* stays unread; when a poll() then finds a complete line of letters first,
\* it returns its Receive.
C18_BlankLineIsNoMessage ==
    [][(PollCall /\ 1 \in OpenIds(codecs) /\ Complete(sock[1])) =>
          /\ Blank(FirstLine(sock[1])) =>
                /\ ret'.res = "Ok" /\ ret'.batch = <<>>
                /\ 1 \in OpenIds(codecs')
                /\ sock'[1].inb
                     = SubSeq(sock[1].inb, Len(FirstLine(sock[1])) + 1, Len(sock[1].inb))
          /\ (Len(FirstLine(sock[1])) > 1
                /\ \A i \in 1..(Len(FirstLine(sock[1])) - 1) : FirstLine(sock[1])[i] = 97) =>
                ret'.batch = <<Ev("Receive", 1, Payload([inb |-> FirstLine(sock[1])]), "", "read")>>]_vars

\* a poll() consumed a blank line and returned nothing, and the line "a"
\* behind it is unread
C18_Witness ==
    /\ ret.op = "poll" /\ ret.res = "Ok" /\ ret.batch = <<>>
    /\ 1 \in OpenIds(codecs)
    /\ sock[1].inb = <<97, LF>>

---------------------------------------------------------------------------
\* the Leave and ClientError events of batch b for client id
TerminalOf(b, id) == SelectSeq(b, LAMBDA e : e.type \in Terminal /\ e.id = id)

\* C19: for every client id at most one Leave or ClientError is emitted over
\* the life of the server: a batch holds at most one for an id, and only for
\* a client that was open when the poll() began (a client closed by an
\* earlier one is not); a client whose write fails in the send phase gets no
\* second ClientError from the read phase.
C19_OneTerminalEvent ==
    [][PollCall =>
        \A id \in AppIds :
            /\ Len(TerminalOf(ret'.batch, id)) <= 1
            /\ TerminalOf(ret'.batch, id) # <<>> => id \in OpenIds(codecs)]_vars

---------------------------------------------------------------------------
\* the events of batch b that name client id
EventsOf(b, id) == SelectSeq(b, LAMBDA e : e.id = id)

\* C20: a client accepted during a poll() is neither read nor written in that
\* call.  The batch with Join(id) holds no other event that names id, a
\* message queued for id is dropped in that call without a write, and what
\* the client has sent stays unread; no batch before names id: the events
\* other than Join name only clients that joined in an earlier batch, so that
\* the first batch that can hold Receive, Send, Leave or ClientError for id
\* is the one of the poll() that follows.
C20_AcceptedClientWaitsOnePoll ==
    [][PollStep =>
        /\ \A id \in IdsIn(ret'.batch, {"Join"}) :
              /\ id \notin joined
              /\ Len(EventsOf(ret'.batch, id)) = 1
              /\ \A k \in 1..Len(ret'.sends) :
                    ret'.sends[k].id = id => ret'.sends[k].res = "NoMatch"
              /\ id \in OpenIds(codecs')
              /\ \E n \in 1..Len(Taken) :
                    Taken[n].kind = "ok" /\ sock'[id].inb = Taken[n].data
        /\ \A id \in AppIds :
              Names(ret'.batch, id) => id \in joined \cup IdsIn(ret'.batch, {"Join"})
        /\ \A id \in IdsIn(ret'.batch, {"Receive", "Send", "Leave", "ClientError"}) :
              id \in joined]_vars

\* a poll() accepted a client that had sent a line and had a message queued
\* for its id: the batch names it in its Join only, the message was dropped
\* and the line is unread
C20_Witness ==
    /\ ret.op = "poll" /\ ret.res = "Ok"
    /\ \E id \in IdsIn(ret.batch, {"Join"}) :
          /\ Len(EventsOf(ret.batch, id)) = 1
          /\ \E k \in 1..Len(ret.sends) : ret.sends[k].id = id
          /\ sock[id].inb = Hi \o <<LF>>

====
